---- MODULE Spec2Model ----
(***************************************************************************)
(* Model of Arduino/Examples/web_server/web_server.ino: the acquisition    *)
(* scheduler (setup, loop), the client dispatcher (handleClientRequests)   *)
(* and the page assembler (assembleWebPage) of the Metriful MS430 web      *)
(* server example.                                                         *)
(***************************************************************************)
EXTENDS Integers, Sequences, FiniteSets, TLC

\* ------------------------------------------------------------------ bounds
\* Number of bytes one inbound connection delivers before it must close.
MaxLen == 3
\* Number of sensor read transactions that fail in one run.
MaxFailures == 1
\* Number of READY assertions told apart while the flag stays set.
MaxRaised == 2

\* --------------------------------------------------- build-time constants
\* Macros of Metriful_sensor.h and of the WiFi library, by their names; the
\* program only compares them, so that they differ is all that matters.
CYCLE_PERIOD_3_S == 0
CYCLE_PERIOD_100_S == 1
CYCLE_PERIOD_300_S == 2
PARTICLE_SENSOR_OFF == 0
PARTICLE_SENSOR_PPD42 == 1
PARTICLE_SENSOR_SDS011 == 2
SOUND_FREQ_BANDS == 6
sound_band_mids_Hz == <<125, 250, 500, 1000, 2000, 4000>>
WL_CONNECTED == 3
WL_DISCONNECTED == 6

\* Symbols of Metriful_sensor.h, written as the text the page shows.
CELSIUS_SYMBOL == "degC"
OHM_SYMBOL == "ohm"
SUBSCRIPT_2 == "2"
SDS011_UNIT_SYMBOL == "ug/m3"

\* The bytes the dispatcher distinguishes: '\n', '\r' and any other byte.
LF == "\n"
CR == "\r"
OTHER_BYTE == "x"
Bytes == {LF, CR, OTHER_BYTE}

\* Seconds between two data updates of a cadence.
CyclePeriodSeconds(cp) ==
  IF cp = CYCLE_PERIOD_3_S THEN 3
  ELSE IF cp = CYCLE_PERIOD_100_S THEN 100 ELSE 300

\* ---------------------------------------------------------- data records
ZeroAir ==
  [T_C_int_with_sign |-> 0, T_C_fr_1dp |-> 0, P_Pa |-> 0,
   H_pc_int |-> 0, H_pc_fr_1dp |-> 0, G_ohm |-> 0]
ZeroAirQuality ==
  [AQI_int |-> 0, AQI_fr_1dp |-> 0, CO2e_int |-> 0, CO2e_fr_1dp |-> 0,
   bVOC_int |-> 0, bVOC_fr_2dp |-> 0, AQI_accuracy |-> 0]
ZeroLight == [illum_lux_int |-> 0, illum_lux_fr_2dp |-> 0, white |-> 0]
ZeroSound ==
  [SPL_dBA_int |-> 0, SPL_dBA_fr_1dp |-> 0,
   SPL_bands_dB_int |-> <<0, 0, 0, 0, 0, 0>>,
   SPL_bands_dB_fr_1dp |-> <<0, 0, 0, 0, 0, 0>>,
   peak_amp_mPa_int |-> 0, peak_amp_mPa_fr_2dp |-> 0]
ZeroParticle ==
  [duty_cycle_pc_int |-> 0, duty_cycle_pc_fr_2dp |-> 0,
   concentration_int |-> 0, concentration_fr_2dp |-> 0]

\* The values the sensor can hand out in a read transaction.
AirSamples ==
  {[T_C_int_with_sign |-> 149, T_C_fr_1dp |-> 5, P_Pa |-> 101325,
    H_pc_int |-> 45, H_pc_fr_1dp |-> 2, G_ohm |-> 250000]}
AirQualitySamples ==
  {[AQI_int |-> 132, AQI_fr_1dp |-> 7, CO2e_int |-> 1234, CO2e_fr_1dp |-> 5,
    bVOC_int |-> 3, bVOC_fr_2dp |-> 7, AQI_accuracy |-> 2]}
LightSamples ==
  {[illum_lux_int |-> 310, illum_lux_fr_2dp |-> 4, white |-> 65535]}
SoundSamples ==
  {[SPL_dBA_int |-> 48, SPL_dBA_fr_1dp |-> 3,
    SPL_bands_dB_int |-> <<40, 41, 42, 43, 44, 45>>,
    SPL_bands_dB_fr_1dp |-> <<1, 2, 3, 4, 5, 6>>,
    peak_amp_mPa_int |-> 12, peak_amp_mPa_fr_2dp |-> 9]}
ParticleSamples ==
  {[duty_cycle_pc_int |-> 2, duty_cycle_pc_fr_2dp |-> 5,
    concentration_int |-> 1500, concentration_fr_2dp |-> 25]}

\* ------------------------------------------------------------ formatting
\* printf "%u"
FmtU(n) == ToString(n)
\* printf "%02u"
Fmt02U(n) == IF n < 10 THEN "0" \o ToString(n) ELSE ToString(n)

\* getTemperature of Metriful_sensor: sign in bit 7, magnitude in bits 0..6.
getTemperature(air) ==
  [isPositive |-> air.T_C_int_with_sign < 128,
   T_intPart |-> air.T_C_int_with_sign % 128,
   T_fractionalPart |-> air.T_C_fr_1dp,
   unit |-> CELSIUS_SYMBOL]

interpret_AQI_accuracy(code) ==
  IF code = 1 THEN "Low accuracy, self-calibration ongoing"
  ELSE IF code = 2 THEN "Medium accuracy, self-calibration ongoing"
  ELSE IF code = 3 THEN "High accuracy"
  ELSE "Not yet valid, self-calibration incomplete"

interpret_AQI_value(AQI) ==
  IF AQI < 50 THEN "Good"
  ELSE IF AQI < 100 THEN "Acceptable"
  ELSE IF AQI < 150 THEN "Substandard"
  ELSE IF AQI < 200 THEN "Poor"
  ELSE IF AQI < 300 THEN "Bad"
  ELSE "Very bad"

\* ------------------------------------------------------- assembleWebPage
\* The document is kept as the sequence of pieces that sprintf/strcat put
\* into pageBuffer, in order; the bytes of the buffer are their concatenation.
HeaderBlock(refresh) ==
  <<"HTTP/1.1 200 OK\r\n"
    \o "Content-type: text/html\r\n"
    \o "Connection: close\r\n"
    \o "Refresh: " \o FmtU(refresh) \o "\r\n\r\n">>

HtmlHead ==
  <<"<!DOCTYPE HTML><html><head>"
    \o "<meta charset='UTF-8'>"
    \o "<title>Metriful Sensor Demo</title>"
    \o "<style>"
    \o "h1{font-size: 3vw;}"
    \o "h2{font-size: 2vw; margin-top: 4vw;}"
    \o "a{padding: 1vw; font-size: 2vw;}"
    \o "table,th,td{font-size: 2vw;}"
    \o "body{padding: 0vw 2vw;}"
    \o "th,td{padding: 0.05vw 1vw; text-align: left;}"
    \o "#v1{text-align: right; width: 10vw;}"
    \o "#v2{text-align: right; width: 13vw;}"
    \o "#v3{text-align: right; width: 10vw;}"
    \o "#v4{text-align: right; width: 10vw;}"
    \o "#v5{text-align: right; width: 11vw;}"
    \o "</style></head>"
    \o "<body><h1>Indoor Environment Data</h1>">>

AirHeading == "<p><h2>Air Data</h2><table>"
AirQualityHeading == "<p><h2>Air Quality Data</h2>"
SoundHeading == "<p><h2>Sound Data</h2><table>"
LightHeading == "<p><h2>Light Data</h2><table>"
ParticleHeading == "<p><h2>Air Particulate Data</h2><table>"
PageEnd == "</body></html>"

AirSection(air) ==
  LET t == getTemperature(air) IN
  <<AirHeading,
    "<tr><td>Temperature</td><td id='v1'>"
      \o (IF t.isPositive THEN "" ELSE "-")
      \o FmtU(t.T_intPart) \o "." \o FmtU(t.T_fractionalPart)
      \o "</td><td>" \o t.unit \o "</td></tr>",
    "<tr><td>Pressure</td><td id='v1'>" \o FmtU(air.P_Pa)
      \o "</td><td>Pa</td></tr>",
    "<tr><td>Humidity</td><td id='v1'>"
      \o FmtU(air.H_pc_int) \o "." \o FmtU(air.H_pc_fr_1dp)
      \o "</td><td>%</td></tr>",
    "<tr><td>Gas Sensor Resistance</td>"
      \o "<td id='v1'>" \o FmtU(air.G_ohm) \o "</td><td>" \o OHM_SYMBOL
      \o "</td></tr></table></p>">>

\* The lines of the air quality section, by what they are.
AQCalibrationLine(aq) ==
  "<a>" \o interpret_AQI_accuracy(aq.AQI_accuracy) \o "</a></p>"
AQIndexRow(aq) ==
  "<table><tr><td>Air Quality Index</td><td id='v2'>"
    \o FmtU(aq.AQI_int) \o "." \o FmtU(aq.AQI_fr_1dp) \o "</td><td></td></tr>"
AQSummaryRow(aq) ==
  "<tr><td>Air Quality Summary</td><td id='v2'>"
    \o interpret_AQI_value(aq.AQI_int) \o "</td><td></td></tr>"
AQCO2Row(aq) ==
  "<tr><td>Estimated CO" \o SUBSCRIPT_2 \o "</td><td id='v2'>"
    \o FmtU(aq.CO2e_int) \o "." \o FmtU(aq.CO2e_fr_1dp)
    \o "</td><td>ppm</td></tr>"
AQVOCRow(aq) ==
  "<tr><td>Equivalent Breath VOC</td>"
    \o "<td id='v2'>" \o FmtU(aq.bVOC_int) \o "." \o Fmt02U(aq.bVOC_fr_2dp)
    \o "</td><td>ppm</td></tr></table></p>"

\* AirQualitySection without the else: the table follows the message.
AirQualitySection_NoElse(aq) ==
  <<AirQualityHeading>> \o
  (IF aq.AQI_accuracy = 0 THEN <<AQCalibrationLine(aq)>> ELSE <<>>)
  \o <<AQIndexRow(aq), AQSummaryRow(aq), AQCO2Row(aq), AQVOCRow(aq)>>

AirQualitySection(aq) ==
  <<AirQualityHeading>> \o
  (IF aq.AQI_accuracy = 0
     THEN <<AQCalibrationLine(aq)>>
     ELSE <<AQIndexRow(aq), AQSummaryRow(aq), AQCO2Row(aq), AQVOCRow(aq)>>)

SoundBandRow(sound, i) ==
  "<tr><td>Frequency Band " \o FmtU(i) \o " (" \o FmtU(sound_band_mids_Hz[i])
    \o " Hz) SPL</td>"
    \o "<td id='v3'>" \o FmtU(sound.SPL_bands_dB_int[i]) \o "."
    \o FmtU(sound.SPL_bands_dB_fr_1dp[i]) \o "</td><td>dB</td></tr>"

SoundSection(sound) ==
  <<SoundHeading,
    "<tr><td>A-weighted Sound Pressure Level</td>"
      \o "<td id='v3'>" \o FmtU(sound.SPL_dBA_int) \o "."
      \o FmtU(sound.SPL_dBA_fr_1dp) \o "</td><td>dBA</td></tr>">>
  \o [i \in 1..SOUND_FREQ_BANDS |-> SoundBandRow(sound, i)]
  \o <<"<tr><td>Peak Sound Amplitude</td>"
      \o "<td id='v3'>" \o FmtU(sound.peak_amp_mPa_int) \o "."
      \o Fmt02U(sound.peak_amp_mPa_fr_2dp)
      \o "</td><td>mPa</td></tr></table></p>">>

LightSection(light) ==
  <<LightHeading,
    "<tr><td>Illuminance</td><td id='v4'>" \o FmtU(light.illum_lux_int) \o "."
      \o Fmt02U(light.illum_lux_fr_2dp) \o "</td><td>lux</td></tr>",
    "<tr><td>White Light Level</td><td id='v4'>" \o FmtU(light.white)
      \o "</td><td></td></tr>" \o "</table></p>">>

ParticleUnits(ps) ==
  IF ps = PARTICLE_SENSOR_PPD42 THEN "ppL"
  ELSE IF ps = PARTICLE_SENSOR_SDS011 THEN SDS011_UNIT_SYMBOL
  ELSE "(?)"

\* ParticleSection without the test of PARTICLE_SENSOR: the section is always
\* there.
ParticleSection_Always(ps, particle) ==
  <<ParticleHeading,
    "<tr><td>Sensor Duty Cycle</td><td id='v5'>"
      \o FmtU(particle.duty_cycle_pc_int) \o "."
      \o Fmt02U(particle.duty_cycle_pc_fr_2dp)
      \o "</td><td>%</td></tr>",
    "<tr><td>Particle Concentration</td>"
      \o "<td id='v5'>" \o FmtU(particle.concentration_int) \o "."
      \o Fmt02U(particle.concentration_fr_2dp) \o "</td><td>"
      \o ParticleUnits(ps) \o "</td></tr></table></p>">>

ParticleSection(ps, particle) ==
  IF ps # PARTICLE_SENSOR_OFF
    THEN <<ParticleHeading,
           "<tr><td>Sensor Duty Cycle</td><td id='v5'>"
             \o FmtU(particle.duty_cycle_pc_int) \o "."
             \o Fmt02U(particle.duty_cycle_pc_fr_2dp)
             \o "</td><td>%</td></tr>",
           "<tr><td>Particle Concentration</td>"
             \o "<td id='v5'>" \o FmtU(particle.concentration_int) \o "."
             \o Fmt02U(particle.concentration_fr_2dp) \o "</td><td>"
             \o ParticleUnits(ps) \o "</td></tr></table></p>">>
    ELSE <<>>

\* sprintf writing after the text the buffer holds, as strcat does.
sprintf_Appends(buffer, pieces) == buffer \o pieces

\* sprintf(pageBuffer, ...): the text is written from the start of the buffer.
sprintf(buffer, pieces) == pieces
\* strcat(pageBuffer, ...): the text is written after the text the buffer holds.
strcat(buffer, pieces) == buffer \o pieces

\* assembleWebPage: the content of pageBuffer after the call, from its
\* content `buffer` before the call.
assembleWebPage(buffer, air, aq, light, sound, particle, refresh, ps) ==
  LET b1 == sprintf(buffer, HeaderBlock(refresh))
      b2 == strcat(b1, HtmlHead)
      b3 == strcat(b2, AirSection(air))
      b4 == strcat(b3, AirQualitySection(aq))
      b5 == strcat(b4, SoundSection(sound))
      b6 == strcat(b5, LightSection(light))
      b7 == strcat(b6, ParticleSection(ps, particle))
  IN strcat(b7, <<PageEnd>>)

\* char pageBuffer[2300]
PAGE_BUFFER_SIZE == 2300

\* The bytes the document takes in pageBuffer: the characters of its pieces
\* and the terminating zero.
RECURSIVE PiecesLen(_)
PiecesLen(doc) ==
  IF doc = <<>> THEN 0 ELSE Len(Head(doc)) + PiecesLen(Tail(doc))
DocumentSize(doc) == PiecesLen(doc) + 1

\* ----------------------------------------------------------------- state
VARIABLES
  createWifiNetwork,     \* user setting: TRUE hosts a network, FALSE joins one
  cycle_period,          \* user setting: the cadence
  PARTICLE_SENSOR,       \* build setting: the particulate sensor variant
  pc,                    \* position of the single thread of control
  refreshPeriodSeconds,
  ready_assertion_event, \* set by the READY interrupt, cleared by the loop
  raised,                \* READY assertions since the flag was last cleared
  airData, airQualityData, lightData, soundData, particleData,
  pageBuffer,
  assembled,             \* assembleWebPage has run at least once
  theIP,
  serial,                \* lines written to the diagnostic channel in this pass
  serialReady,           \* the value of "Serial"
  isrAttached,           \* SensorHardwareSetup has attached the READY interrupt
  sensorRegs,            \* registers written to the sensor, in order
  wifiStatus,            \* what WiFi.status() returns
  serverStarted,
  pending,               \* TRUE when an inbound connection waits to be accepted
  client,                \* the connection handleClientRequests works on
  trace,                 \* steps of the current pass (startup or poll iteration)
  failed,                \* read commands that failed in the current cycle
  failures               \* read transactions that failed so far

config == <<createWifiNetwork, cycle_period, PARTICLE_SENSOR>>
readyEvent == <<ready_assertion_event, raised>>
records == <<airData, airQualityData, lightData, soundData, particleData>>
sensorEnv == <<isrAttached, sensorRegs>>
link == <<theIP, wifiStatus>>
netEnv == <<link, serverStarted>>
conn == <<pending, client>>
cycleHist == <<failed, failures>>
document == <<pageBuffer, assembled>>
vars == <<config, pc, refreshPeriodSeconds, readyEvent, records,
          document, serial, serialReady, sensorEnv, netEnv, conn, trace,
          cycleHist>>

STATIC_IP == "192.168.12.20"
LeasedAddresses == {"10.0.0.5"}
NoClient ==
  [active |-> FALSE, connected |-> FALSE, blankLine |-> FALSE, got |-> <<>>,
   written |-> <<>>]

\* The builds looked at: the cadence and the particulate sensor have nothing
\* to do with each other in the program, so each cadence goes with one sensor
\* setting, in both link modes.
Builds ==
  {<<CYCLE_PERIOD_3_S, PARTICLE_SENSOR_OFF>>,
   <<CYCLE_PERIOD_100_S, PARTICLE_SENSOR_PPD42>>,
   <<CYCLE_PERIOD_300_S, PARTICLE_SENSOR_SDS011>>}

Init ==
  /\ createWifiNetwork \in BOOLEAN
  /\ \E b \in Builds : cycle_period = b[1] /\ PARTICLE_SENSOR = b[2]
  /\ pc = "setup"
  /\ refreshPeriodSeconds = 0
  /\ ready_assertion_event = FALSE
  /\ raised = 0
  /\ airData = ZeroAir
  /\ airQualityData = ZeroAirQuality
  /\ lightData = ZeroLight
  /\ soundData = ZeroSound
  /\ particleData = ZeroParticle
  /\ pageBuffer = <<>>
  /\ assembled = FALSE
  /\ theIP = STATIC_IP
  /\ serial = <<>>
  /\ serialReady = FALSE
  /\ isrAttached = FALSE
  /\ sensorRegs = <<>>
  /\ wifiStatus = WL_DISCONNECTED
  /\ serverStarted = FALSE
  /\ pending = FALSE
  /\ client = NoClient
  /\ trace = <<>>
  /\ failed = {}
  /\ failures = 0

\* ----------------------------------------------------------- environment
\* The READY interrupt service routine of Metriful_sensor: in cycle mode the
\* sensor asserts READY whenever new data are available.
ReadyISR ==
  /\ isrAttached
  /\ "CYCLE_MODE_CMD" \in {sensorRegs[i] : i \in 1..Len(sensorRegs)}
  /\ ready_assertion_event' = TRUE
  /\ raised' = IF raised < MaxRaised THEN raised + 1 ELSE raised
  /\ UNCHANGED <<config, pc, refreshPeriodSeconds, records, document, serial,
                 serialReady, sensorEnv, netEnv, conn, trace, cycleHist>>

\* The serial port comes up; only the startup of Joining mode looks at it.
SerialUp ==
  /\ pc = "setup_wait_serial"
  /\ ~serialReady
  /\ serialReady' = TRUE
  /\ UNCHANGED <<config, pc, refreshPeriodSeconds, readyEvent,
                 records, document, serial, sensorEnv, netEnv, conn, trace,
                 cycleHist>>

\* The joined network is lost.
LinkDrop ==
  /\ ~createWifiNetwork
  /\ wifiStatus = WL_CONNECTED
  /\ wifiStatus' = WL_DISCONNECTED
  /\ UNCHANGED <<config, pc, refreshPeriodSeconds, readyEvent,
                 records, document, serial, serialReady, sensorEnv, theIP, serverStarted, conn, trace, cycleHist>>

\* A client connects to the listening server.
ClientConnects ==
  /\ serverStarted
  /\ ~pending
  /\ pending' = TRUE
  /\ UNCHANGED <<config, pc, refreshPeriodSeconds, readyEvent,
                 records, document, serial, serialReady, sensorEnv, netEnv,
                 client, trace, cycleHist>>

\* The peer closes the connection the dispatcher works on.
ClientCloses ==
  /\ client.active
  /\ client.connected
  /\ client' = [client EXCEPT !.connected = FALSE]
  /\ UNCHANGED <<config, pc, refreshPeriodSeconds, readyEvent,
                 records, document, serial, serialReady, sensorEnv, netEnv,
                 pending, trace, cycleHist>>

\* ----------------------------------------------------------------- setup
interpret_WiFi_status(status) ==
  IF status = WL_CONNECTED THEN "Connected"
  ELSE IF status = WL_DISCONNECTED THEN "Disconnected"
  ELSE "Unknown"

\* What WiFi.localIP() returns once connectToWiFi has left the link in
\* state `status`.
LocalIPs(status) ==
  IF status = WL_CONNECTED THEN LeasedAddresses ELSE {"0.0.0.0"}

\* connectToWiFi of WiFi_functions followed by theIP = WiFi.localIP(): the
\* call blocks, then leaves the link connected, or gives up.
connectToWiFi ==
  /\ wifiStatus' \in {WL_CONNECTED, WL_DISCONNECTED}
  /\ theIP' \in LocalIPs(wifiStatus')

\* The interrupt is attached while the sensor starts up and is reset: READY
\* may be asserted before the function returns.
SensorHardwareSetup ==
  /\ pc = "setup"
  /\ isrAttached' = TRUE
  /\ ready_assertion_event' \in BOOLEAN
  /\ raised' = (IF ready_assertion_event' THEN 1 ELSE 0)
  /\ pc' = "setup_net"
  /\ trace' = Append(trace, "SensorHardwareSetup")
  /\ UNCHANGED <<config, refreshPeriodSeconds, records,
                 document, serial, serialReady, sensorRegs,
                 netEnv, conn, cycleHist>>

SetupCreateAPOk ==
  /\ pc = "setup_net"
  /\ createWifiNetwork
  /\ pc' = "setup_print"
  /\ trace' = Append(trace, "createWiFiAP")
  /\ UNCHANGED <<config, refreshPeriodSeconds, readyEvent, records,
                 document, serial, serialReady, sensorEnv, netEnv, conn, cycleHist>>

\* SetupCreateAPFail without the endless loop: startup goes on.
SetupCreateAPFail_Continues ==
  /\ pc = "setup_net"
  /\ createWifiNetwork
  /\ serial' = Append(serial, "Failed to create access point.")
  /\ pc' = "setup_print"
  /\ trace' = Append(trace, "createWiFiAP")
  /\ UNCHANGED <<config, refreshPeriodSeconds, readyEvent, records,
                 document, serialReady, sensorEnv, netEnv, conn, cycleHist>>

SetupCreateAPFail ==
  /\ pc = "setup_net"
  /\ createWifiNetwork
  /\ serial' = Append(serial, "Failed to create access point.")
  /\ pc' = "halt"
  /\ trace' = Append(trace, "createWiFiAP")
  /\ UNCHANGED <<config, refreshPeriodSeconds, readyEvent, records,
                 document, serialReady, sensorEnv, netEnv, conn, cycleHist>>

\* while (true) { yield(); }
HaltYield ==
  /\ pc = "halt"
  /\ UNCHANGED vars

SetupJoinBranch ==
  /\ pc = "setup_net"
  /\ ~createWifiNetwork
  /\ pc' = "setup_wait_serial"
  /\ UNCHANGED <<config, refreshPeriodSeconds, readyEvent, records,
                 document, serial, serialReady, sensorEnv, netEnv, conn,
                 trace, cycleHist>>

\* while (!Serial) { yield(); }
SetupWaitSerial ==
  /\ pc = "setup_wait_serial"
  /\ serialReady
  /\ pc' = "setup_join"
  /\ UNCHANGED <<config, refreshPeriodSeconds, readyEvent, records,
                 document, serial, serialReady, sensorEnv, netEnv, conn,
                 trace, cycleHist>>

SetupJoin ==
  /\ pc = "setup_join"
  /\ connectToWiFi
  /\ pc' = "setup_print"
  /\ trace' = Append(trace, "connectToWiFi")
  /\ UNCHANGED <<config, refreshPeriodSeconds, readyEvent, records,
                 document, serial, serialReady, sensorEnv, serverStarted,
                 conn, cycleHist>>

SetupAnnounce ==
  /\ pc = "setup_print"
  /\ serial' = Append(serial, "View your page at http://" \o theIP)
  /\ serverStarted' = TRUE
  /\ pc' = "setup_refresh"
  /\ trace' = Append(trace, "server.begin")
  /\ UNCHANGED <<config, refreshPeriodSeconds, readyEvent, records,
                 document, serialReady, sensorEnv, link, conn, cycleHist>>

\* RefreshPeriodFor with the values of the two long cadences exchanged.
RefreshPeriodFor_Swapped(cp) ==
  IF cp = CYCLE_PERIOD_3_S THEN 3
  ELSE IF cp = CYCLE_PERIOD_100_S THEN 50
  ELSE 30

RefreshPeriodFor(cp) ==
  IF cp = CYCLE_PERIOD_3_S THEN 3
  ELSE IF cp = CYCLE_PERIOD_100_S THEN 30
  ELSE 50

SetupRefresh ==
  /\ pc = "setup_refresh"
  /\ refreshPeriodSeconds' = RefreshPeriodFor(cycle_period)
  /\ pc' = "setup_sensor"
  /\ UNCHANGED <<config, readyEvent, records, document, serial,
                 serialReady, sensorEnv, netEnv, conn, trace, cycleHist>>

SetupSensorConfig ==
  /\ pc = "setup_sensor"
  /\ sensorRegs' = sensorRegs
       \o <<"PARTICLE_SENSOR_SELECT_REG", "CYCLE_TIME_PERIOD_REG">>
  /\ pc' = "setup_clear"
  /\ trace' = Append(trace, "TransmitI2C")
  /\ UNCHANGED <<config, refreshPeriodSeconds, readyEvent, records,
                 document, serial, serialReady, isrAttached,
                 netEnv, conn, cycleHist>>

\* SetupClearReady leaving the flag as the startup of the sensor left it.
SetupClearReady_Skipped ==
  /\ pc = "setup_clear"
  /\ pc' = "setup_cycle"
  /\ UNCHANGED <<config, refreshPeriodSeconds, readyEvent, records, document,
                 serial, serialReady, sensorEnv, netEnv, conn, trace,
                 cycleHist>>

SetupClearReady ==
  /\ pc = "setup_clear"
  /\ ready_assertion_event' = FALSE
  /\ raised' = 0
  /\ pc' = "setup_cycle"
  /\ UNCHANGED <<config, refreshPeriodSeconds, records, document, serial,
                 serialReady, sensorEnv, netEnv, conn, trace, cycleHist>>

SetupCycleMode ==
  /\ pc = "setup_cycle"
  /\ sensorRegs' = Append(sensorRegs, "CYCLE_MODE_CMD")
  /\ pc' = "poll"
  /\ trace' = Append(trace, "CYCLE_MODE_CMD")
  /\ UNCHANGED <<config, refreshPeriodSeconds, readyEvent, records,
                 document, serial, serialReady, isrAttached,
                 netEnv, conn, cycleHist>>

\* ------------------------------------------------------------------ loop
\* while (!ready_assertion_event): the flag is read once per iteration.
PollWaiting ==
  /\ pc = "poll"
  /\ ~ready_assertion_event
  /\ pc' = "hcr"
  /\ trace' = <<"poll">>
  /\ serial' = <<>>
  /\ UNCHANGED <<config, refreshPeriodSeconds, readyEvent, records,
                 document, serialReady, sensorEnv, netEnv, conn, cycleHist>>

PollReady ==
  /\ pc = "poll"
  /\ ready_assertion_event
  /\ pc' = "clear"
  /\ trace' = <<"poll">>
  /\ serial' = <<>>
  /\ UNCHANGED <<config, refreshPeriodSeconds, readyEvent, records,
                 document, serialReady, sensorEnv, netEnv, conn, cycleHist>>

Yield ==
  /\ pc = "yield"
  /\ pc' = "poll"
  /\ trace' = Append(trace, "yield")
  /\ UNCHANGED <<config, refreshPeriodSeconds, readyEvent, records,
                 document, serial, serialReady, sensorEnv, netEnv, conn,
                 cycleHist>>

\* ClearReady leaving the flag as it is: the readout starts with the flag set.
ClearReady_KeepsFlag ==
  /\ pc = "clear"
  /\ failed' = {}
  /\ pc' = "read_air"
  /\ trace' = Append(trace, "clear")
  /\ UNCHANGED <<config, refreshPeriodSeconds, readyEvent, records,
                 document, serial, serialReady, sensorEnv, netEnv, conn,
                 failures>>

ClearReady ==
  /\ pc = "clear"
  /\ ready_assertion_event' = FALSE
  /\ raised' = 0
  /\ failed' = {}
  /\ pc' = "read_air"
  /\ trace' = Append(trace, "clear")
  /\ UNCHANGED <<config, refreshPeriodSeconds, records, document, serial,
                 serialReady, sensorEnv, netEnv, conn, failures>>

\* ReceiveI2C of Metriful_sensor: the transaction fills the whole record or
\* fails and leaves it as it was.
ReceiveI2C(old, samples, ok) == IF ok THEN samples ELSE {old}

\* The return value of ReceiveI2C is not looked at; the model records it.
Outcome(cmd, ok) ==
  /\ ok \/ failures < MaxFailures
  /\ failed' = (IF ok THEN failed ELSE failed \cup {cmd})
  /\ failures' = (IF ok THEN failures ELSE failures + 1)

\* ReadAir giving up the cycle when the transaction fails.
ReadAir_AbortOnFail ==
  /\ pc = "read_air"
  /\ \E ok \in BOOLEAN :
       /\ airData' \in ReceiveI2C(airData, AirSamples, ok)
       /\ Outcome("AIR_DATA_READ", ok)
       /\ pc' = IF ok THEN "read_air_quality" ELSE "poll"
  /\ trace' = Append(trace, "AIR_DATA_READ")
  /\ UNCHANGED <<config, refreshPeriodSeconds, readyEvent,
                 airQualityData, lightData, soundData, particleData,
                 document, serial, serialReady, sensorEnv, netEnv, conn>>

ReadAir ==
  /\ pc = "read_air"
  /\ \E ok \in BOOLEAN :
       /\ airData' \in ReceiveI2C(airData, AirSamples, ok)
       /\ Outcome("AIR_DATA_READ", ok)
  /\ pc' = "read_air_quality"
  /\ trace' = Append(trace, "AIR_DATA_READ")
  /\ UNCHANGED <<config, refreshPeriodSeconds, readyEvent,
                 airQualityData, lightData, soundData, particleData,
                 document, serial, serialReady, sensorEnv, netEnv, conn>>

ReadAirQuality ==
  /\ pc = "read_air_quality"
  /\ \E ok \in BOOLEAN :
       /\ airQualityData' \in ReceiveI2C(airQualityData, AirQualitySamples, ok)
       /\ Outcome("AIR_QUALITY_DATA_READ", ok)
  /\ pc' = "read_light"
  /\ trace' = Append(trace, "AIR_QUALITY_DATA_READ")
  /\ UNCHANGED <<config, refreshPeriodSeconds, readyEvent, airData,
                 lightData, soundData, particleData, document, serial,
                 serialReady, sensorEnv, netEnv, conn>>

ReadLight ==
  /\ pc = "read_light"
  /\ \E ok \in BOOLEAN :
       /\ lightData' \in ReceiveI2C(lightData, LightSamples, ok)
       /\ Outcome("LIGHT_DATA_READ", ok)
  /\ pc' = "read_sound"
  /\ trace' = Append(trace, "LIGHT_DATA_READ")
  /\ UNCHANGED <<config, refreshPeriodSeconds, readyEvent, airData,
                 airQualityData, soundData, particleData, document, serial,
                 serialReady, sensorEnv, netEnv, conn>>

ReadSound ==
  /\ pc = "read_sound"
  /\ \E ok \in BOOLEAN :
       /\ soundData' \in ReceiveI2C(soundData, SoundSamples, ok)
       /\ Outcome("SOUND_DATA_READ", ok)
  /\ pc' = "read_particle"
  /\ trace' = Append(trace, "SOUND_DATA_READ")
  /\ UNCHANGED <<config, refreshPeriodSeconds, readyEvent, airData,
                 airQualityData, lightData, particleData, document, serial,
                 serialReady, sensorEnv, netEnv, conn>>

ReadParticle ==
  /\ pc = "read_particle"
  /\ PARTICLE_SENSOR # PARTICLE_SENSOR_OFF
  /\ \E ok \in BOOLEAN :
       /\ particleData' \in ReceiveI2C(particleData, ParticleSamples, ok)
       /\ Outcome("PARTICLE_DATA_READ", ok)
  /\ pc' = "assemble"
  /\ trace' = Append(trace, "PARTICLE_DATA_READ")
  /\ UNCHANGED <<config, refreshPeriodSeconds, readyEvent, airData,
                 airQualityData, lightData, soundData, document, serial,
                 serialReady, sensorEnv, netEnv, conn>>

SkipParticle ==
  /\ pc = "read_particle"
  /\ PARTICLE_SENSOR = PARTICLE_SENSOR_OFF
  /\ pc' = "assemble"
  /\ UNCHANGED <<config, refreshPeriodSeconds, readyEvent, records,
                 document, serial, serialReady, sensorEnv, netEnv, conn,
                 trace, cycleHist>>

\* Assemble followed by a read of the air record: a readout that ends after
\* the page was built.
Assemble_ThenReadAir ==
  /\ pc = "assemble"
  /\ pageBuffer' = assembleWebPage(pageBuffer, airData, airQualityData,
                                   lightData, soundData, particleData,
                                   refreshPeriodSeconds, PARTICLE_SENSOR)
  /\ assembled' = TRUE
  /\ airData' \in AirSamples
  /\ pc' = IF DocumentSize(pageBuffer') <= PAGE_BUFFER_SIZE
            THEN "linkcheck" ELSE "overrun"
  /\ trace' = Append(trace, "assembleWebPage")
  /\ UNCHANGED <<config, refreshPeriodSeconds, readyEvent,
                 airQualityData, lightData, soundData, particleData, serial,
                 serialReady, sensorEnv, netEnv, conn, cycleHist>>

\* sprintf and strcat do not look at the size of pageBuffer: a document that
\* does not fit is written past its end, and what the program does after
\* that is not defined ("overrun").
Assemble ==
  /\ pc = "assemble"
  /\ pageBuffer' = assembleWebPage(pageBuffer, airData, airQualityData,
                                   lightData, soundData, particleData,
                                   refreshPeriodSeconds, PARTICLE_SENSOR)
  /\ assembled' = TRUE
  /\ pc' = IF DocumentSize(pageBuffer') <= PAGE_BUFFER_SIZE
            THEN "linkcheck" ELSE "overrun"
  /\ trace' = Append(trace, "assembleWebPage")
  /\ UNCHANGED <<config, refreshPeriodSeconds, readyEvent, records,
                 serial, serialReady, sensorEnv, netEnv, conn, cycleHist>>

\* LinkCheckHosting without the test of createWifiNetwork: the status is
\* asked for in Hosting mode too.
LinkCheckHosting_Queries ==
  /\ pc = "linkcheck"
  /\ createWifiNetwork
  /\ pc' = "poll"
  /\ trace' = Append(trace, "WiFi.status")
  /\ UNCHANGED <<config, refreshPeriodSeconds, readyEvent, records,
                 document, serial, serialReady, sensorEnv, netEnv, conn,
                 cycleHist>>

\* if (!createWifiNetwork) is false: the cycle ends.
LinkCheckHosting ==
  /\ pc = "linkcheck"
  /\ createWifiNetwork
  /\ pc' = "poll"
  /\ UNCHANGED <<config, refreshPeriodSeconds, readyEvent, records,
                 document, serial, serialReady, sensorEnv, netEnv, conn,
                 trace, cycleHist>>

LinkCheckConnected ==
  /\ pc = "linkcheck"
  /\ ~createWifiNetwork
  /\ wifiStatus = WL_CONNECTED
  /\ pc' = "poll"
  /\ trace' = Append(trace, "WiFi.status")
  /\ UNCHANGED <<config, refreshPeriodSeconds, readyEvent, records,
                 document, serial, serialReady, sensorEnv, netEnv, conn, cycleHist>>

\* LinkCheckLost that prints the status and goes on without reconnecting.
LinkCheckLost_NoRejoin ==
  /\ pc = "linkcheck"
  /\ ~createWifiNetwork
  /\ wifiStatus # WL_CONNECTED
  /\ serial' = Append(serial,
                      "Wifi status: " \o interpret_WiFi_status(wifiStatus))
  /\ pc' = "poll"
  /\ trace' = Append(trace, "WiFi.status")
  /\ UNCHANGED <<config, refreshPeriodSeconds, readyEvent, records,
                 document, serialReady, sensorEnv, netEnv, conn, cycleHist>>

LinkCheckLost ==
  /\ pc = "linkcheck"
  /\ ~createWifiNetwork
  /\ wifiStatus # WL_CONNECTED
  /\ serial' = Append(serial,
                      "Wifi status: " \o interpret_WiFi_status(wifiStatus))
  /\ pc' = "rejoin"
  /\ trace' = Append(trace, "WiFi.status")
  /\ UNCHANGED <<config, refreshPeriodSeconds, readyEvent, records,
                 document, serialReady, sensorEnv, netEnv, conn, cycleHist>>

\* connectToWiFi returns; theIP = WiFi.localIP().
RejoinConnect ==
  /\ pc = "rejoin"
  /\ connectToWiFi
  /\ pc' = "rejoin_report"
  /\ trace' = Append(trace, "connectToWiFi")
  /\ UNCHANGED <<config, refreshPeriodSeconds, readyEvent, records,
                 document, serial, serialReady, sensorEnv, serverStarted,
                 conn, cycleHist>>

\* RejoinReport without the second clear of the flag.
RejoinReport_KeepsFlag ==
  /\ pc = "rejoin_report"
  /\ serial' = Append(serial, "View your page at http://" \o theIP)
  /\ pc' = "poll"
  /\ trace' = Append(trace, "report")
  /\ UNCHANGED <<config, refreshPeriodSeconds, readyEvent, records, document,
                 serialReady, sensorEnv, netEnv, conn, cycleHist>>

RejoinReport ==
  /\ pc = "rejoin_report"
  /\ serial' = Append(serial, "View your page at http://" \o theIP)
  /\ ready_assertion_event' = FALSE
  /\ raised' = 0
  /\ pc' = "poll"
  /\ trace' = Append(trace, "report")
  /\ UNCHANGED <<config, refreshPeriodSeconds, records, document,
                 serialReady, sensorEnv, netEnv, conn, cycleHist>>

\* -------------------------------------------------- handleClientRequests
\* HcrAccept turning the pending connection down: the call returns and the
\* connection goes on waiting.
HcrAccept_Ignores ==
  /\ pc = "hcr"
  /\ pending
  /\ pc' = "yield"
  /\ trace' = Append(trace, "handleClientRequests")
  /\ UNCHANGED <<config, refreshPeriodSeconds, readyEvent, records,
                 document, serial, serialReady, sensorEnv, netEnv, conn,
                 cycleHist>>

\* WiFiClient client = server.available(); if (client) { ... }
HcrAccept ==
  /\ pc = "hcr"
  /\ pending
  /\ pending' = FALSE
  /\ client' = [NoClient EXCEPT !.active = TRUE, !.connected = TRUE]
  /\ pc' = "hcr_loop"
  /\ trace' = Append(trace, "handleClientRequests")
  /\ UNCHANGED <<config, refreshPeriodSeconds, readyEvent, records,
                 document, serial, serialReady, sensorEnv, netEnv, cycleHist>>

\* HcrNoClient going back to the loop condition without the yield.
HcrNoClient_NoYield ==
  /\ pc = "hcr"
  /\ ~pending
  /\ pc' = "poll"
  /\ trace' = Append(trace, "handleClientRequests")
  /\ UNCHANGED <<config, refreshPeriodSeconds, readyEvent, records,
                 document, serial, serialReady, sensorEnv, netEnv, conn,
                 cycleHist>>

HcrNoClient ==
  /\ pc = "hcr"
  /\ ~pending
  /\ pc' = "yield"
  /\ trace' = Append(trace, "handleClientRequests")
  /\ UNCHANGED <<config, refreshPeriodSeconds, readyEvent, records,
                 document, serial, serialReady, sensorEnv, netEnv, conn,
                 cycleHist>>

\* ReadByte without the test for '\r': a carriage return ends the blank line.
ReadByte_CRResets(cl, c, page) ==
  IF c = LF
    THEN IF cl.blankLine
           THEN [cl EXCEPT !.got = Append(@, c), !.written = Append(@, page)]
           ELSE [cl EXCEPT !.got = Append(@, c), !.blankLine = TRUE]
    ELSE [cl EXCEPT !.got = Append(@, c), !.blankLine = FALSE]

\* ReadByte answering only a request whose first byte is neither '\n' nor
\* '\r': the response depends on what was asked.
ReadByte_ChecksMethod(cl, c, page) ==
  IF c = LF
    THEN IF cl.blankLine
           THEN [cl EXCEPT !.got = Append(@, c),
                           !.written =
                             Append(@, IF cl.got[1] = OTHER_BYTE
                                         THEN page ELSE <<>>)]
           ELSE [cl EXCEPT !.got = Append(@, c), !.blankLine = TRUE]
    ELSE IF c # CR
           THEN [cl EXCEPT !.got = Append(@, c), !.blankLine = FALSE]
           ELSE [cl EXCEPT !.got = Append(@, c)]

\* One pass of while (client.connected()) in which a byte is available.
ReadByte(cl, c, page) ==
  IF c = LF
    THEN IF cl.blankLine
           THEN [cl EXCEPT !.got = Append(@, c), !.written = Append(@, page)]
           ELSE [cl EXCEPT !.got = Append(@, c), !.blankLine = TRUE]
    ELSE IF c # CR
           THEN [cl EXCEPT !.got = Append(@, c), !.blankLine = FALSE]
           ELSE [cl EXCEPT !.got = Append(@, c)]

\* The while loop over a whole inbound stream: bytes are read until the
\* stream ends or the response was written (break).
RECURSIVE Serve(_, _, _)
Serve(cl, stream, page) ==
  IF stream = <<>> \/ cl.written # <<>>
    THEN cl
    ELSE Serve(ReadByte(cl, Head(stream), page), Tail(stream), page)

HcrRead ==
  /\ pc = "hcr_loop"
  /\ client.connected
  /\ Len(client.got) < MaxLen
  /\ \E c \in Bytes :
       /\ client' = ReadByte(client, c, pageBuffer)
       /\ pc' = IF c = LF /\ client.blankLine THEN "hcr_stop" ELSE "hcr_loop"
  /\ UNCHANGED <<config, refreshPeriodSeconds, readyEvent, records,
                 document, serial, serialReady, sensorEnv, netEnv, pending, trace, cycleHist>>

\* HcrClosed returning at once: a connection that closed without a request
\* is not stopped.
HcrClosed_NoStop ==
  /\ pc = "hcr_loop"
  /\ ~client.connected
  /\ pc' = "yield"
  /\ UNCHANGED <<config, refreshPeriodSeconds, readyEvent, records,
                 document, serial, serialReady, sensorEnv, netEnv, conn,
                 trace, cycleHist>>

\* HcrClosed giving up on a connection that is still open.
HcrClosed_GivesUp ==
  /\ pc = "hcr_loop"
  /\ pc' = "hcr_stop"
  /\ UNCHANGED <<config, refreshPeriodSeconds, readyEvent, records,
                 document, serial, serialReady, sensorEnv, netEnv, conn,
                 trace, cycleHist>>

\* client.connected() is false: the while loop ends.
HcrClosed ==
  /\ pc = "hcr_loop"
  /\ ~client.connected
  /\ pc' = "hcr_stop"
  /\ UNCHANGED <<config, refreshPeriodSeconds, readyEvent, records,
                 document, serial, serialReady, sensorEnv, netEnv, conn,
                 trace, cycleHist>>

\* delay(10); client.stop(); the function returns and its local WiFiClient
\* goes out of scope.
HcrStop ==
  /\ pc = "hcr_stop"
  /\ client' = NoClient
  /\ pc' = "yield"
  /\ trace' = Append(trace, "client.stop")
  /\ UNCHANGED <<config, refreshPeriodSeconds, readyEvent, records,
                 document, serial, serialReady, sensorEnv, netEnv, pending,
                 cycleHist>>

\* --------------------------------------------------------- specification
Next ==
  \/ ReadyISR \/ SerialUp \/ LinkDrop \/ ClientConnects \/ ClientCloses
  \/ SensorHardwareSetup \/ SetupCreateAPOk \/ SetupCreateAPFail \/ HaltYield
  \/ SetupJoinBranch \/ SetupWaitSerial \/ SetupJoin \/ SetupAnnounce
  \/ SetupRefresh \/ SetupSensorConfig \/ SetupClearReady \/ SetupCycleMode
  \/ PollWaiting \/ PollReady \/ Yield \/ ClearReady
  \/ ReadAir \/ ReadAirQuality \/ ReadLight \/ ReadSound \/ ReadParticle
  \/ SkipParticle \/ Assemble
  \/ LinkCheckHosting \/ LinkCheckConnected \/ LinkCheckLost
  \/ RejoinConnect \/ RejoinReport
  \/ HcrAccept \/ HcrNoClient \/ HcrRead \/ HcrClosed \/ HcrStop

Spec == Init /\ [][Next]_vars

\* ------------------------------------------------------------- liveness
\* The steps of the program itself: setup(), loop() and the functions they
\* call.  The processor keeps running, so a step that stays possible is taken.
Program ==
  \/ SensorHardwareSetup \/ SetupCreateAPOk \/ SetupCreateAPFail
  \/ SetupJoinBranch \/ SetupWaitSerial \/ SetupJoin \/ SetupAnnounce
  \/ SetupRefresh \/ SetupSensorConfig \/ SetupClearReady \/ SetupCycleMode
  \/ PollWaiting \/ PollReady \/ Yield \/ ClearReady
  \/ ReadAir \/ ReadAirQuality \/ ReadLight \/ ReadSound \/ ReadParticle
  \/ SkipParticle \/ Assemble
  \/ LinkCheckHosting \/ LinkCheckConnected \/ LinkCheckLost
  \/ RejoinConnect \/ RejoinReport
  \/ HcrAccept \/ HcrNoClient \/ HcrRead \/ HcrClosed \/ HcrStop

\* One build of each link mode is enough for the scheduling.
InitLive ==
  /\ Init
  /\ \/ createWifiNetwork /\ PARTICLE_SENSOR = PARTICLE_SENSOR_OFF
     \/ ~createWifiNetwork /\ PARTICLE_SENSOR = PARTICLE_SENSOR_SDS011

\* The program runs (connectToWiFi returns among its steps), and a connection
\* that was accepted is closed by its peer at some time.
SpecLive ==
  /\ InitLive
  /\ [][Next]_vars
  /\ WF_vars(Program)
  /\ WF_vars(ClientCloses)

\* ------------------------------------------- the page assembler on its own
\* Record values the sensor can deliver, among them the largest of each field.
PageAir ==
  {ZeroAir} \cup AirSamples \cup
  {[T_C_int_with_sign |-> 255, T_C_fr_1dp |-> 9, P_Pa |-> 2147483647,
    H_pc_int |-> 100, H_pc_fr_1dp |-> 9, G_ohm |-> 2147483647]}
PageAirQuality ==
  {ZeroAirQuality} \cup AirQualitySamples \cup
  {[AQI_int |-> 25, AQI_fr_1dp |-> 0, CO2e_int |-> 500, CO2e_fr_1dp |-> 0,
    bVOC_int |-> 0, bVOC_fr_2dp |-> 50, AQI_accuracy |-> 0],
   [AQI_int |-> 61, AQI_fr_1dp |-> 4, CO2e_int |-> 650, CO2e_fr_1dp |-> 1,
    bVOC_int |-> 0, bVOC_fr_2dp |-> 71, AQI_accuracy |-> 1],
   [AQI_int |-> 500, AQI_fr_1dp |-> 9, CO2e_int |-> 65535, CO2e_fr_1dp |-> 9,
    bVOC_int |-> 65535, bVOC_fr_2dp |-> 99, AQI_accuracy |-> 3]}
PageLight ==
  {ZeroLight} \cup LightSamples \cup
  {[illum_lux_int |-> 65535, illum_lux_fr_2dp |-> 99, white |-> 65535]}
PageSound ==
  {ZeroSound} \cup SoundSamples
PageParticle ==
  {ZeroParticle} \cup ParticleSamples \cup
  {[duty_cycle_pc_int |-> 100, duty_cycle_pc_fr_2dp |-> 99,
    concentration_int |-> 65535, concentration_fr_2dp |-> 99]}

\* The records with every field at the largest value of its type (uint8_t,
\* uint16_t; 2147483647 has the ten digits of the largest uint32_t).
MaxAir ==
  [T_C_int_with_sign |-> 255, T_C_fr_1dp |-> 255, P_Pa |-> 2147483647,
   H_pc_int |-> 255, H_pc_fr_1dp |-> 255, G_ohm |-> 2147483647]
MaxAirQuality ==
  [AQI_int |-> 65535, AQI_fr_1dp |-> 255, CO2e_int |-> 65535,
   CO2e_fr_1dp |-> 255, bVOC_int |-> 65535, bVOC_fr_2dp |-> 255,
   AQI_accuracy |-> 255]
MaxLight ==
  [illum_lux_int |-> 65535, illum_lux_fr_2dp |-> 255, white |-> 65535]
MaxSound ==
  [SPL_dBA_int |-> 255, SPL_dBA_fr_1dp |-> 255,
   SPL_bands_dB_int |-> <<255, 255, 255, 255, 255, 255>>,
   SPL_bands_dB_fr_1dp |-> <<255, 255, 255, 255, 255, 255>>,
   peak_amp_mPa_int |-> 65535, peak_amp_mPa_fr_2dp |-> 255]
MaxParticle ==
  [duty_cycle_pc_int |-> 255, duty_cycle_pc_fr_2dp |-> 255,
   concentration_int |-> 65535, concentration_fr_2dp |-> 255]

\* The steps of a cycle up to the call of assembleWebPage.
ReadsOfCycle ==
  <<"poll", "clear", "AIR_DATA_READ", "AIR_QUALITY_DATA_READ",
    "LIGHT_DATA_READ", "SOUND_DATA_READ">>
  \o (IF PARTICLE_SENSOR # PARTICLE_SENSOR_OFF
        THEN <<"PARTICLE_DATA_READ">> ELSE <<>>)

\* The first cycle of a host in Hosting mode, at the call of assembleWebPage,
\* with any of the record values read.
InitPage ==
  /\ createWifiNetwork = TRUE
  /\ cycle_period \in {CYCLE_PERIOD_3_S, CYCLE_PERIOD_100_S, CYCLE_PERIOD_300_S}
  /\ PARTICLE_SENSOR \in
       {PARTICLE_SENSOR_OFF, PARTICLE_SENSOR_PPD42, PARTICLE_SENSOR_SDS011}
  /\ pc = "assemble"
  /\ refreshPeriodSeconds = RefreshPeriodFor(cycle_period)
  /\ ready_assertion_event = FALSE
  /\ raised = 0
  /\ airData \in PageAir \cup {MaxAir}
  /\ airQualityData \in PageAirQuality \cup {MaxAirQuality}
  /\ lightData \in PageLight \cup {MaxLight}
  /\ soundData \in PageSound \cup {MaxSound}
  /\ particleData \in
       (IF PARTICLE_SENSOR = PARTICLE_SENSOR_OFF
          THEN {ZeroParticle} ELSE PageParticle \cup {MaxParticle})
  /\ pageBuffer = <<>>
  /\ assembled = FALSE
  /\ theIP = STATIC_IP
  /\ serial = <<>>
  /\ serialReady = FALSE
  /\ isrAttached = TRUE
  /\ sensorRegs = <<"PARTICLE_SENSOR_SELECT_REG", "CYCLE_TIME_PERIOD_REG",
                    "CYCLE_MODE_CMD">>
  /\ wifiStatus = WL_DISCONNECTED
  /\ serverStarted = TRUE
  /\ pending = FALSE
  /\ client = NoClient
  /\ trace = ReadsOfCycle
  /\ failed = {}
  /\ failures = 0

NextPage == Assemble

SpecPage == InitPage /\ [][NextPage]_vars

\* ---------------------------------------------------------------- claims
Count(seq, x) == Cardinality({i \in 1..Len(seq) : seq[i] = x})
Front(seq) == SubSeq(seq, 1, Len(seq) - 1)
Last(seq) == seq[Len(seq)]
\* s holds two '\n' with nothing but '\r' between them.
HasPattern(s) ==
  \E i, j \in 1..Len(s) :
    /\ i < j
    /\ s[i] = LF
    /\ s[j] = LF
    /\ \A k \in (i + 1)..(j - 1) : s[k] = CR

\* C1: handleClientRequests writes iff the bytes read from the connection
\* hold two '\n' separated only by '\r'; it then writes the whole current
\* pageBuffer exactly once and reads nothing more; while the pattern is
\* missing nothing is written, and a close without it leaves no write.
C1_ResponseIffBlankLine ==
  /\ pc = "hcr_loop" =>
       /\ client.written = <<>>
       /\ ~HasPattern(client.got)
  /\ pc = "hcr_stop" =>
       /\ (client.written # <<>>) <=> HasPattern(client.got)
       /\ HasPattern(client.got) =>
            /\ client.written = <<pageBuffer>>
            /\ ~HasPattern(Front(client.got))

C1_Witness ==
  /\ pc = "hcr_stop"
  /\ client.got = <<LF, CR, LF>>
  /\ client.written = <<pageBuffer>>
  /\ assembled

\* The page assembleWebPage builds from the all-zero records.
ZeroPage ==
  assembleWebPage(<<>>, ZeroAir, ZeroAirQuality, ZeroLight, ZeroSound,
                  ZeroParticle, refreshPeriodSeconds, PARTICLE_SENSOR)

\* C2: a response written before assembleWebPage has run for the first time
\* is the page of the all-zero records.
C2_StartupPageShowsZeros ==
  (pc = "hcr_stop" /\ client.written # <<>> /\ ~assembled)
    => client.written = <<ZeroPage>>

Cadences == {CYCLE_PERIOD_3_S, CYCLE_PERIOD_100_S, CYCLE_PERIOD_300_S}
RefreshChosen ==
  pc \notin {"setup", "setup_net", "setup_wait_serial", "setup_join",
             "setup_print", "setup_refresh", "halt"}

\* C3 as stated: once chosen, the refresh hint is at least the time between
\* two data updates of the configured cadence.
C3_RefreshAtLeastCadence ==
  RefreshChosen => refreshPeriodSeconds >= CyclePeriodSeconds(cycle_period)

\* C3 as amended: once chosen, the refresh hint is at most the time between
\* two data updates of the configured cadence (the page is refreshed at least
\* as often as the data change), and a longer cadence gets a strictly longer
\* refresh hint.
C3_RefreshAtMostCadence ==
  /\ RefreshChosen =>
       /\ refreshPeriodSeconds = RefreshPeriodFor(cycle_period)
       /\ refreshPeriodSeconds <= CyclePeriodSeconds(cycle_period)
  /\ \A a, b \in Cadences :
       CyclePeriodSeconds(a) < CyclePeriodSeconds(b)
         => RefreshPeriodFor(a) < RefreshPeriodFor(b)

C3_Witness ==
  /\ pc = "poll"
  /\ cycle_period = CYCLE_PERIOD_300_S
  /\ refreshPeriodSeconds = 50

\* The passes of the poll loop that found the flag clear.
WaitingPasses ==
  {<<"poll", "handleClientRequests", "yield">>,
   <<"poll", "handleClientRequests", "client.stop", "yield">>}
IsWaitingPass == Len(trace) >= 2 /\ trace[2] = "handleClientRequests"

\* C4: a poll iteration that finds the flag clear reads the flag once, calls
\* the dispatcher once and then yields once before the flag is read again,
\* whether or not a connection is pending; no such iteration goes anywhere
\* but into the dispatcher.
C4_PollCallsDispatcherThenYields ==
  /\ [](pc = "hcr" => trace = <<"poll">>)
  /\ []((pc = "poll" /\ IsWaitingPass) =>
          /\ trace \in WaitingPasses
          /\ Count(trace, "poll") = 1
          /\ Count(trace, "handleClientRequests") = 1
          /\ Count(trace, "yield") = 1)
  /\ [][(pc = "poll" /\ ~ready_assertion_event /\ pc' # pc) => pc' = "hcr"]_vars
  /\ [][(pc' = "poll" /\ pc # "poll" /\ IsWaitingPass') => pc = "yield"]_vars

C4_Witness ==
  /\ pc = "poll"
  /\ trace = <<"poll", "handleClientRequests", "yield">>
  /\ ~ready_assertion_event
  /\ ~pending

Range(seq) == {seq[i] : i \in 1..Len(seq)}
\* The document of the current records, built in an empty buffer.
CurrentPage ==
  assembleWebPage(<<>>, airData, airQualityData, lightData, soundData,
                  particleData, refreshPeriodSeconds, PARTICLE_SENSOR)
\* The document starts with the response header, ends with the closing tags
\* and holds each fixed section heading once.
IsCompleteDocument(doc) ==
  /\ Len(doc) > 2
  /\ <<doc[1]>> = HeaderBlock(refreshPeriodSeconds)
  /\ Last(doc) = PageEnd
  /\ \A h \in {AirHeading, AirQualityHeading, SoundHeading, LightHeading} :
       Count(doc, h) = 1
DispatcherRunning == pc \in {"hcr", "hcr_loop", "hcr_stop"}
IsCyclePass == Len(trace) >= 2 /\ trace[2] = "clear"

\* C5: whenever the dispatcher runs, pageBuffer is the initial buffer or the
\* complete document built from the records as the last finished readout
\* left them; the dispatcher runs in no cycle; assembleWebPage starts after
\* all reads of the cycle and has finished before anything else runs.
C5_DispatcherSeesCompleteDocument ==
  /\ DispatcherRunning =>
       /\ trace \in {<<"poll">>, <<"poll", "handleClientRequests">>}
       /\ IF assembled
            THEN pageBuffer = CurrentPage /\ IsCompleteDocument(pageBuffer)
            ELSE pageBuffer = <<>>
       /\ \A i \in 1..Len(client.written) : client.written[i] = pageBuffer
  /\ pc = "assemble" => trace = ReadsOfCycle
  /\ pc = "linkcheck" =>
       /\ pageBuffer = CurrentPage
       /\ Last(trace) = "assembleWebPage"

C5_Witness ==
  /\ pc = "hcr_stop"
  /\ client.written = <<pageBuffer>>
  /\ assembled
  /\ pageBuffer = CurrentPage
  /\ airData \in AirSamples
  /\ lightData = ZeroLight

CycleUpToAssembly == ReadsOfCycle \o <<"assembleWebPage">>
AddressLine == "View your page at http://" \o theIP

\* C6: in Joining mode a cycle asks for the link status once, after the
\* reads and the page assembly; with the link connected the cycle ends there
\* and prints nothing; otherwise it calls connectToWiFi, prints the address
\* it then has, and goes back to the poll loop.
C6_JoiningCycleChecksLink ==
  /\ []((~createWifiNetwork /\ pc = "poll" /\ IsCyclePass) =>
          \/ /\ trace = CycleUpToAssembly \o <<"WiFi.status">>
             /\ serial = <<>>
          \/ /\ trace = CycleUpToAssembly
                        \o <<"WiFi.status", "connectToWiFi", "report">>
             /\ serial = <<"Wifi status: Disconnected", AddressLine>>
             /\ theIP \in LeasedAddresses \cup {"0.0.0.0"})
  /\ [][(~createWifiNetwork /\ pc = "linkcheck" /\ pc' # pc) =>
          IF wifiStatus = WL_CONNECTED
            THEN pc' = "poll" /\ serial' = serial /\ theIP' = theIP
            ELSE pc' = "rejoin"]_vars
  /\ [][(pc = "rejoin" /\ pc' # pc) => pc' = "rejoin_report"]_vars
  /\ [][(pc = "rejoin_report" /\ pc' # pc) => pc' = "poll"]_vars

C6_Witness ==
  /\ ~createWifiNetwork
  /\ pc = "poll"
  /\ Last(trace) = "report"
  /\ theIP \in LeasedAddresses
  /\ serial = <<"Wifi status: Disconnected", AddressLine>>

\* C7: createWifiNetwork never changes; in Hosting mode no step asks for the
\* link status or calls connectToWiFi; in Joining mode createWiFiAP is never
\* called.
C7_LinkModeFixed ==
  /\ [][createWifiNetwork' = createWifiNetwork]_vars
  /\ [](createWifiNetwork =>
          /\ "WiFi.status" \notin Range(trace)
          /\ "connectToWiFi" \notin Range(trace)
          /\ pc \notin {"setup_wait_serial", "setup_join", "rejoin",
                        "rejoin_report"})
  /\ [](~createWifiNetwork =>
          /\ "createWiFiAP" \notin Range(trace)
          /\ pc # "halt")

C7_Witness ==
  /\ createWifiNetwork
  /\ pc = "poll"
  /\ trace = CycleUpToAssembly

\* C8: when createWiFiAP fails in Hosting mode the failure is printed and
\* the host stays in the endless loop: createWiFiAP was called once, the
\* server is not started, no register of the sensor is written, the poll loop
\* is not entered and no connection is accepted or served.
C8_HostingFailureHalts ==
  /\ [](pc = "halt" =>
          /\ createWifiNetwork
          /\ serial = <<"Failed to create access point.">>
          /\ trace = <<"SensorHardwareSetup", "createWiFiAP">>
          /\ ~serverStarted
          /\ sensorRegs = <<>>
          /\ ~pending
          /\ client = NoClient
          /\ ~assembled)
  /\ []("Failed to create access point." \in Range(serial) => pc = "halt")
  /\ [][pc = "halt" => pc' = "halt"]_vars

C8_Witness ==
  /\ pc = "halt"
  /\ serial = <<"Failed to create access point.">>
  /\ ready_assertion_event

\* C9: a read transaction that fails leaves its record as it was; every read
\* command of the cycle is still issued exactly once, the page is assembled
\* and the link is checked, in every cycle, whatever failed before.
C9_ReadFailureNotEscalated ==
  /\ [](pc = "assemble" => trace = ReadsOfCycle)
  /\ []((pc = "poll" /\ IsCyclePass) =>
          /\ Len(trace) >= Len(CycleUpToAssembly)
          /\ SubSeq(trace, 1, Len(CycleUpToAssembly)) = CycleUpToAssembly
          /\ ~createWifiNetwork => "WiFi.status" \in Range(trace))
  /\ [](failed # {} => pc # "halt")
  /\ [][/\ "AIR_DATA_READ" \in failed' \ failed => airData' = airData
        /\ "AIR_QUALITY_DATA_READ" \in failed' \ failed
             => airQualityData' = airQualityData
        /\ "LIGHT_DATA_READ" \in failed' \ failed => lightData' = lightData
        /\ "SOUND_DATA_READ" \in failed' \ failed => soundData' = soundData
        /\ "PARTICLE_DATA_READ" \in failed' \ failed
             => particleData' = particleData]_vars

C9_Witness ==
  /\ pc = "poll"
  /\ IsCyclePass
  /\ failed = {"AIR_DATA_READ"}
  /\ airData = ZeroAir
  /\ lightData \in LightSamples
  /\ pageBuffer = CurrentPage

\* The lines of the document between the air quality and the sound heading.
AirQualityLines(doc) ==
  LET i == CHOOSE k \in 1..Len(doc) : doc[k] = AirQualityHeading
      j == CHOOSE k \in 1..Len(doc) : doc[k] = SoundHeading
  IN SubSeq(doc, i + 1, j - 1)

\* C10: the air quality section of the assembled document is the calibration
\* message alone when the accuracy is 0, and otherwise the rows Air Quality
\* Index, Air Quality Summary, Estimated CO2, Equivalent Breath VOC in this
\* order, without the message.
C10_AirQualitySectionByAccuracy ==
  pc = "linkcheck" =>
    /\ Count(pageBuffer, AirQualityHeading) = 1
    /\ Count(pageBuffer, SoundHeading) = 1
    /\ LET aq == airQualityData
           lines == AirQualityLines(pageBuffer)
           rows == <<AQIndexRow(aq), AQSummaryRow(aq), AQCO2Row(aq),
                     AQVOCRow(aq)>>
       IN IF aq.AQI_accuracy = 0
            THEN /\ lines = <<AQCalibrationLine(aq)>>
                 /\ Range(rows) \cap Range(pageBuffer) = {}
            ELSE /\ lines = rows
                 /\ AQCalibrationLine(aq) \notin Range(pageBuffer)

C10_Witness ==
  /\ pc = "linkcheck"
  /\ airQualityData.AQI_accuracy = 3
  /\ Len(AirQualityLines(pageBuffer)) = 4

\* The concentration row of the particulate section with a given unit label.
ConcentrationRow(particle, unit) ==
  "<tr><td>Particle Concentration</td>"
    \o "<td id='v5'>" \o FmtU(particle.concentration_int) \o "."
    \o Fmt02U(particle.concentration_fr_2dp) \o "</td><td>"
    \o unit \o "</td></tr></table></p>"
\* The unit labels of the two sensor variants.
VariantUnit == IF PARTICLE_SENSOR = PARTICLE_SENSOR_PPD42
                 THEN "ppL" ELSE SDS011_UNIT_SYMBOL
AllUnits == {"ppL", SDS011_UNIT_SYMBOL, "(?)"}
CycleReadsDone ==
  IsCyclePass /\ pc \in {"assemble", "linkcheck", "rejoin", "rejoin_report",
                         "poll"}

\* C11: with the particulate sensor off no cycle reads the particulate
\* record and no assembled document has a particulate section; with the
\* PPD42 or the SDS011 every cycle reads the record once and every assembled
\* document has the section once, with the unit label of that variant.
C11_ParticleByConfiguration ==
  /\ CycleReadsDone =>
       Count(trace, "PARTICLE_DATA_READ")
         = (IF PARTICLE_SENSOR = PARTICLE_SENSOR_OFF THEN 0 ELSE 1)
  /\ PARTICLE_SENSOR = PARTICLE_SENSOR_OFF =>
       /\ particleData = ZeroParticle
       /\ ParticleHeading \notin Range(pageBuffer)
       /\ \A u \in AllUnits :
            ConcentrationRow(particleData, u) \notin Range(pageBuffer)
  /\ (PARTICLE_SENSOR # PARTICLE_SENSOR_OFF /\ assembled) =>
       Count(pageBuffer, ParticleHeading) = 1
  /\ (PARTICLE_SENSOR # PARTICLE_SENSOR_OFF /\ pc = "linkcheck") =>
       /\ Count(pageBuffer, ConcentrationRow(particleData, VariantUnit)) = 1
       /\ \A u \in AllUnits \ {VariantUnit} :
            ConcentrationRow(particleData, u) \notin Range(pageBuffer)

C11_Witness ==
  /\ pc = "linkcheck"
  /\ PARTICLE_SENSOR = PARTICLE_SENSOR_SDS011
  /\ particleData \in ParticleSamples
  /\ "PARTICLE_DATA_READ" \in Range(trace)
  /\ ConcentrationRow(particleData, SDS011_UNIT_SYMBOL) \in Range(pageBuffer)

C13_AssemblyReplacesDocument ==
  /\ [][(pc = "assemble" /\ pc' # pc) =>
          /\ pageBuffer' = CurrentPage
          /\ CurrentPage' = CurrentPage
          /\ pageBuffer = CurrentPage => pageBuffer' = pageBuffer]_vars
  /\ [](pc = "linkcheck" =>
          /\ Count(pageBuffer, HeaderBlock(refreshPeriodSeconds)[1]) = 1
          /\ Count(pageBuffer, PageEnd) = 1)

\* A second cycle has assembled, over the document of the first.
C13_Witness ==
  /\ pc = "linkcheck"
  /\ failures = 1
  /\ failed = {}
  /\ pageBuffer = CurrentPage
  /\ airData \in AirSamples

\* The inbound byte streams of at most MaxLen bytes.
Streams == UNION {[1..n -> Bytes] : n \in 0..MaxLen}
Accepted == [NoClient EXCEPT !.active = TRUE, !.connected = TRUE]

\* C14: what the dispatcher writes to a connection whose bytes hold the
\* end-of-headers pattern is what it writes, against the same pageBuffer,
\* to any other connection whose bytes hold the pattern: the document, once,
\* whatever else was sent.
C14_ResponseIndependentOfRequest ==
  (pc = "hcr_stop" /\ HasPattern(client.got)) =>
    /\ client.written = Serve(Accepted, client.got, pageBuffer).written
    /\ \A other \in Streams :
         HasPattern(other) =>
           Serve(Accepted, other, pageBuffer).written = client.written

C14_Witness ==
  /\ pc = "hcr_stop"
  /\ client.got = <<OTHER_BYTE, LF, LF>>
  /\ client.written = <<pageBuffer>>
  /\ assembled
  /\ Serve(Accepted, <<LF, CR, LF>>, pageBuffer).written = client.written

\* C15: a call of handleClientRequests takes at most one pending connection,
\* at its start; with none pending it returns at once and reads, writes and
\* stops nothing; a connection it took is stopped exactly once, as the last
\* thing before the call returns, with or without a response written, and a
\* connection that arrives meanwhile waits for the next call.
C15_OneConnectionPerCall ==
  /\ [][(pc = "hcr" /\ pc' # pc) =>
          IF pending
            THEN /\ pc' = "hcr_loop"
                 /\ ~pending'
                 /\ client' = Accepted
            ELSE /\ pc' = "yield"
                 /\ client' = NoClient
                 /\ client = NoClient
                 /\ ~pending'
                 /\ trace' = <<"poll", "handleClientRequests">>]_vars
  /\ [][(client'.active /\ ~client.active) => pc = "hcr"]_vars
  /\ [][(pc \in {"hcr_loop", "hcr_stop"} /\ pending) => pending']_vars
  /\ [][(client.active /\ ~client'.active) =>
          /\ pc = "hcr_stop"
          /\ pc' = "yield"
          /\ trace' = <<"poll", "handleClientRequests", "client.stop">>]_vars
  /\ [](pc \in {"hcr_loop", "hcr_stop"} =>
          /\ client.active
          /\ trace = <<"poll", "handleClientRequests">>)
  /\ [](pc \notin {"hcr_loop", "hcr_stop"} => client = NoClient)

C15_Witness ==
  /\ pc = "yield"
  /\ trace = <<"poll", "handleClientRequests", "client.stop">>
  /\ pending
  /\ client = NoClient

\* The ways a cycle ends after the page assembly.
CycleEndings ==
  IF createWifiNetwork
    THEN {<<>>}
    ELSE {<<"WiFi.status">>, <<"WiFi.status", "connectToWiFi", "report">>}
Acquiring ==
  pc \in {"clear", "read_air", "read_air_quality", "read_light", "read_sound",
          "read_particle", "assemble", "linkcheck", "rejoin", "rejoin_report"}

\* C16: the poll loop is left for a cycle only with the flag read as set; the
\* flag is cleared as the first step of the cycle, before any record is read;
\* the loop is entered again only after the reads, the page assembly and the
\* link check, in this order; the dispatcher is not called in between.
C16_CycleOrder ==
  /\ [][(pc = "poll" /\ pc' # pc) =>
          IF ready_assertion_event THEN pc' = "clear" ELSE pc' = "hcr"]_vars
  /\ [][(Acquiring' /\ ~Acquiring) =>
          pc = "poll" /\ ready_assertion_event /\ pc' = "clear"]_vars
  /\ [][(pc = "clear" /\ pc' # pc) =>
          /\ trace = <<"poll">>
          /\ ~ready_assertion_event'
          /\ pc' = "read_air"
          /\ records' = records]_vars
  /\ [][(Acquiring /\ ~Acquiring') =>
          /\ pc' = "poll"
          /\ \E e \in CycleEndings : trace' = CycleUpToAssembly \o e]_vars
  /\ [](Acquiring =>
          /\ "handleClientRequests" \notin Range(trace)
          /\ "yield" \notin Range(trace)
          /\ client = NoClient)

C16_Witness ==
  /\ pc = "poll"
  /\ ~createWifiNetwork
  /\ PARTICLE_SENSOR # PARTICLE_SENSOR_OFF
  /\ trace = CycleUpToAssembly \o <<"WiFi.status">>
  /\ ~ready_assertion_event

\* C17: a call that took a connection leaves its loop exactly when the
\* connection is closed or the end-of-headers pattern was read; while the
\* connection stays open without the pattern the call stays in the loop, and
\* then no cycle starts although the flag is set, the document and the
\* records stay as they are and a pending connection stays pending.
C17_OpenConnectionBlocksLoop ==
  /\ [][(pc = "hcr_loop" /\ client.connected /\ ~HasPattern(client'.got))
          => pc' = "hcr_loop"]_vars
  /\ [][(pc = "hcr_loop" /\ pc' # pc) =>
          /\ pc' = "hcr_stop"
          /\ ~client.connected \/ HasPattern(client'.got)]_vars
  /\ [][(pc = "hcr_loop" /\ (~client.connected \/ HasPattern(client.got)))
          => (client'.got = client.got /\ client'.written = client.written)]_vars
  /\ [][(pc = "hcr_loop" /\ pc' = "hcr_loop") =>
          /\ pageBuffer' = pageBuffer
          /\ records' = records
          /\ trace' = trace
          /\ pending => pending'
          /\ ready_assertion_event => ready_assertion_event']_vars
  /\ [](pc = "hcr_loop" => ~HasPattern(client.got))

\* The flag is set and a second connection waits, while the call is held by
\* an open connection that has sent no blank line.
C17_Witness ==
  /\ pc = "hcr_loop"
  /\ client.connected
  /\ client.got = <<OTHER_BYTE, LF>>
  /\ ready_assertion_event
  /\ pending
  /\ assembled

Waiting == pc \in {"poll", "hcr", "hcr_loop", "hcr_stop", "yield"}

CycleMode == "CYCLE_MODE_CMD" \in Range(sensorRegs)

\* C19: the step that ends a reconnection clears the flag, whatever was
\* raised during the readout, the assembly and the reconnection of the cycle,
\* so the flag the next cycle starts on was raised after it; no other step
\* after the clear at the start of a cycle clears the flag, so in a cycle
\* without reconnection an assertion raised meanwhile is kept, and the poll
\* that follows starts the next cycle without a call of the dispatcher.
C19_RejoinDiscardsAssertion ==
  /\ [][(pc = "rejoin_report" /\ pc' # pc) =>
          /\ pc' = "poll"
          /\ ~ready_assertion_event'
          /\ raised' = 0]_vars
  /\ [][(pc \in {"read_air", "read_air_quality", "read_light", "read_sound",
                 "read_particle", "assemble", "linkcheck", "rejoin"}) =>
          /\ raised' >= raised
          /\ ready_assertion_event => ready_assertion_event']_vars
  /\ []((pc = "poll" /\ IsCyclePass /\ Last(trace) = "report"
         /\ ready_assertion_event) => raised >= 1)
  /\ [][(pc = "poll" /\ IsCyclePass /\ ready_assertion_event /\ pc' # pc)
          => pc' = "clear"]_vars

\* The reconnection has returned with READY raised during the cycle.
C19_Witness ==
  /\ pc = "rejoin_report"
  /\ wifiStatus = WL_CONNECTED
  /\ raised = 2
  /\ ready_assertion_event
  /\ assembled

\* C20: the flag is set exactly while an assertion raised since its last
\* clear is unused; the flag is clear when the cycle-mode command is sent and
\* no assertion is raised in between; a cycle starts only on an assertion
\* raised after the last clear, and its first step uses up all of them, so
\* the cycles are no more than the assertions raised after the startup
\* clear, and no record is read before the command and an assertion after it.
C20_CyclesNeedAssertions ==
  /\ [](ready_assertion_event <=> raised >= 1)
  /\ [](pc = "setup_cycle" => raised = 0)
  /\ [](Acquiring => CycleMode)
  /\ [][(raised' > raised /\ pc # "setup") => (CycleMode /\ pc' = pc)]_vars
  /\ [][(Acquiring' /\ ~Acquiring) => raised >= 1]_vars
  /\ [][(pc = "clear" /\ pc' # pc) => raised' = 0]_vars
  /\ [][(Acquiring /\ pc # "clear") => pc' # "clear"]_vars

\* Two assertions were raised before the cycle they start has cleared the flag.
C20_Witness ==
  /\ pc = "clear"
  /\ raised = 2
  /\ assembled

====
